---- MODULE Spec2Model ----
(***************************************************************************)
(* Model of the photo enhancer page (src/web/src/app/page.tsx): the pixel  *)
(* pipeline (tone mapping, clarity kernel), the image-load downscaling and *)
(* the event handlers and effects of the Home component.                   *)
(*                                                                         *)
(* Numbers.  The code computes in IEEE doubles; the model computes the     *)
(* same expressions in exact rational arithmetic.  Every intermediate      *)
(* value of the tone mapper is an integer numerator over a denominator     *)
(* that depends only on the settings (see Scale1 .. Scale4), kept as a     *)
(* multi-limb integer because the numerators exceed 32 bits.  Settings are *)
(* integers (the sliders step by 1).                                       *)
(*                                                                         *)
(* Buffers are functions on 0 .. length-1, indexed as in the code.         *)
(***************************************************************************)
EXTENDS Integers, Sequences, FiniteSets, TLC

NULL == "null"

\* ------------------------------------------------------------------------
\* Multi-limb integers: a function on Limbs, little-endian, base Base; the
\* limbs below the top one are in 0 .. Base-1 and the top limb carries the
\* sign (value = SUM a[i] * Base^(i-1)).
\* ------------------------------------------------------------------------
Base == 100 * 100
NumLimbs == 4 + 4
Limbs == 1 .. NumLimbs

RECURSIVE NormFrom(_, _, _)
NormFrom(a, i, carry) ==
  LET t == a[i] + carry IN
  IF i = NumLimbs THEN <<t>>
  ELSE <<t % Base>> \o NormFrom(a, i + 1, t \div Base)

BigNorm(a) == NormFrom(a, 1, 0)

BigOfInt(n) == BigNorm([i \in Limbs |-> IF i = 1 THEN n ELSE 0])

BigAdd(a, b) == BigNorm([i \in Limbs |-> a[i] + b[i]])

BigSub(a, b) == BigNorm([i \in Limbs |-> a[i] - b[i]])

\* a * m for an ordinary integer m with |m| < 200000
BigScale(a, m) == BigNorm([i \in Limbs |-> a[i] * m])

\* a * Base
BigShiftUp(a) ==
  [i \in Limbs |-> IF i = 1 THEN 0
                   ELSE IF i = NumLimbs THEN a[i - 1] + a[i] * Base
                   ELSE a[i - 1]]

\* floor(a / Base)
BigShiftDown(a) ==
  [i \in Limbs |-> IF i = NumLimbs - 1 THEN a[i + 1] % Base
                   ELSE IF i = NumLimbs THEN a[i] \div Base
                   ELSE a[i + 1]]

\* floor(a / d) for an ordinary integer 0 < d < 200000 (short division from
\* the top limb; DivFrom yields the quotient's limbs most significant first)
RECURSIVE DivFrom(_, _, _, _)
DivFrom(a, i, rem, d) ==
  LET cur == rem * Base + a[i] IN
  IF i = 1 THEN <<cur \div d>>
  ELSE <<cur \div d>> \o DivFrom(a, i - 1, cur % d, d)

BigDivInt(a, d) ==
  LET q == DivFrom(a, NumLimbs, 0, d)
  IN BigNorm([i \in Limbs |-> q[NumLimbs + 1 - i]])

BigIsNeg(a) == a[NumLimbs] < 0

\* The value of a as an ordinary integer, saturated at +-IntCap (every use
\* is followed by a clamp to 0..255, so saturation cannot change a result).
IntCap == Base * Base
BigToInt(a) ==
  IF BigIsNeg(a)
  THEN (IF \A i \in 3 .. NumLimbs - 1 : a[i] = Base - 1
        THEN (IF a[NumLimbs] = -1 THEN a[1] + a[2] * Base - IntCap ELSE -IntCap)
        ELSE -IntCap)
  ELSE (IF \A i \in 3 .. NumLimbs : a[i] = 0
        THEN a[1] + a[2] * Base
        ELSE IntCap)

Min(a, b) == IF a < b THEN a ELSE b
Max(a, b) == IF a > b THEN a ELSE b

\* ------------------------------------------------------------------------
\* Settings (page.tsx 14-30) and the auto-enhance preset (333-342)
\* ------------------------------------------------------------------------
DEFAULT_SETTINGS ==
  [brightness |-> 12, contrast |-> 18, saturation |-> 16,
   warmth |-> 6, clarity |-> 28, fade |-> 6]

AUTO_SETTINGS ==
  [brightness |-> 18, contrast |-> 24, saturation |-> 20,
   warmth |-> 8, clarity |-> 36, fade |-> 4]

SettingKeys == {"brightness", "contrast", "saturation", "warmth", "clarity", "fade"}

\* ------------------------------------------------------------------------
\* Channel rounding, clamping and stores
\* ------------------------------------------------------------------------
\* clampChannel after Math.round: rounded is Math.round(value)
clampChannel(rounded) == Min(255, Max(0, rounded))

\* the conversion a Uint8ClampedArray applies to an integer stored into it
ToUint8Clamped(v) == Min(255, Max(0, v))

\* a store into a Uint8Array without clampChannel: the value modulo 256
StoreChannelWrapped(rounded) == rounded % 256

\* buffer[i] = clampChannel(value), buffer a Uint8ClampedArray
StoreChannel(rounded) == ToUint8Clamped(clampChannel(rounded))

\* ------------------------------------------------------------------------
\* Tone mapper: applyEnhancements, lines 175-209
\* ------------------------------------------------------------------------
\* const contrastValue = Math.min(98, settings.contrast)
contrastValue(s) == Min(98, s.contrast)

\* the numerator with 255 in the place of 259
ContrastNumSwapped(s) == 255 * (contrastValue(s) + 255)

\* contrastFactor = ContrastNum / ContrastDen
ContrastNum(s) == 259 * (contrastValue(s) + 255)
ContrastDen(s) == 255 * (259 - contrastValue(s))

\* fadeFactor = FadeNum / 100
FadeNum(s) == Max(0, s.fade)

\* A multi-limb integer times 10^4 (a limb shift), limb i of it
ShiftedLimb(a, i) ==
  IF i = 1 THEN 0
  ELSE IF i = NumLimbs THEN a[i - 1] + a[i] * Base
  ELSE a[i - 1]

\* Line 189-191: contrastFactor * (c - 128) + 128 + brightnessOffset,
\* as a numerator over Scale1 = 100 * ContrastDen
\* (brightnessOffset = settings.brightness / 100 * 255).
ContrastBrightness(s, c) ==
  LET x == BigOfInt(100 * (c - 128))
      y == BigOfInt(12800 + 255 * s.brightness)
  IN BigNorm([i \in Limbs |-> x[i] * ContrastNum(s) + y[i] * ContrastDen(s)])

\* Line 193: gray, as a numerator over Scale1 * 10000
Gray(r1, g1, b1) ==
  BigNorm([i \in Limbs |-> 2989 * r1[i] + 5870 * g1[i] + 1140 * b1[i]])

\* Lines 194-196: gray + (c - gray) * saturationFactor, over Scale2 =
\* Scale1 * 10^6 (saturationFactor = 1 + settings.saturation / 100);
\* c1 is over Scale1, gray over Scale1 * 10000.
Saturate(s, c1, gray) ==
  BigNorm([i \in Limbs |->
             100 * gray[i] + (ShiftedLimb(c1, i) - gray[i]) * (100 + s.saturation)])

\* warmthOffset = settings.warmth * 1.3, over Scale2 = ContrastDen * 10^8
WarmthOffset(s) ==
  BigShiftUp(BigScale(BigOfInt(13000 * s.warmth), ContrastDen(s)))

\* 255 over Scale2 = ContrastDen * 10^8
White(s) == BigShiftUp(BigShiftUp(BigScale(BigOfInt(255), ContrastDen(s))))

\* Lines 201-203: c + (255 - c) * fadeFactor, over Scale4 = Scale2 * 100;
\* c3 is over Scale2.
Fade(s, c3) ==
  LET white == White(s)
  IN BigNorm([i \in Limbs |-> 100 * c3[i] + (white[i] - c3[i]) * FadeNum(s)])

\* Math.round of a value over Scale4 = ContrastDen * 10^10:
\* floor((2 n + Scale4) / (2 Scale4)), divided factor by factor.
RoundScale4(s, n) ==
  LET scale4 == BigShiftUp(BigShiftUp(BigScale(BigOfInt(100), ContrastDen(s))))
      twice  == BigNorm([i \in Limbs |-> 2 * n[i] + scale4[i]])
  IN BigToInt(BigDivInt(BigDivInt(BigShiftDown(BigShiftDown(twice)), 200),
                        ContrastDen(s)))

\* One iteration of the loop of lines 183-209 on the pixel <<r, g, b, a>>:
\* the four values stored at working[i .. i+3].
MapPixel(s, px) ==
  LET r1 == ContrastBrightness(s, px[1])
      g1 == ContrastBrightness(s, px[2])
      b1 == ContrastBrightness(s, px[3])
      gray == Gray(r1, g1, b1)
      r2 == Saturate(s, r1, gray)
      g2 == Saturate(s, g1, gray)
      b2 == Saturate(s, b1, gray)
      warmthOffset == WarmthOffset(s)
      r3 == BigAdd(r2, warmthOffset)
      b3 == BigSub(b2, warmthOffset)
  IN << StoreChannel(RoundScale4(s, Fade(s, r3))),
        StoreChannel(RoundScale4(s, Fade(s, g2))),
        StoreChannel(RoundScale4(s, Fade(s, b3))),
        StoreChannel(px[4]) >>

PixelAt(buf, p) == << buf[4 * p], buf[4 * p + 1], buf[4 * p + 2], buf[4 * p + 3] >>

BufLen(buf) == Cardinality(DOMAIN buf)

\* The loop of lines 183-209 from pixel p on: the values it stores, in order
RECURSIVE ToneLoop(_, _, _)
ToneLoop(s, buf, p) ==
  IF 4 * p >= BufLen(buf) THEN <<>>
  ELSE MapPixel(s, PixelAt(buf, p)) \o ToneLoop(s, buf, p + 1)

\* The buffer the loop leaves in working, which held buf before it
ToneMap(s, buf) ==
  LET stored == ToneLoop(s, buf, 0)
  IN [i \in DOMAIN buf |-> stored[i + 1]]

\* ------------------------------------------------------------------------
\* Clarity kernel: applyClarityKernel, lines 37-87.  The clarity argument is
\* a real number; it is passed here in hundredths (clarity100 = 100 *
\* clarity), and the kernel weights are kept times 10^4.
\* ------------------------------------------------------------------------
\* amount = Math.max(0, clarity) * 0.55, times 10^4
Amount(clarity100) == Max(0, clarity100) * 55

\* kernel[0 .. 8] (lines 45-55), times 10^4, as kernel[k + 1]
Kernel(clarity100) ==
  LET amount == Amount(clarity100)
  IN << 0, -amount, 0,
        -amount, 10000 + amount * 4, -amount,
        0, -amount, 0 >>

\* the (ky, kx) pairs in the order of the loops of lines 64-65
KernelTaps ==
  << <<-1, -1>>, <<-1, 0>>, <<-1, 1>>,
     << 0, -1>>, << 0, 0>>, << 0, 1>>,
     << 1, -1>>, << 1, 0>>, << 1, 1>> >>

\* wraparound instead of clamp-to-edge
WrappedX(width, x, kx) == (x + kx + width) % width

\* const clampedX = Math.min(width - 1, Math.max(0, x + kx))
ClampedX(width, x, kx) == Min(width - 1, Max(0, x + kx))

\* const clampedY = Math.min(height - 1, Math.max(0, y + ky))
ClampedY(height, y, ky) == Min(height - 1, Max(0, y + ky))

\* const idx = (clampedY * width + clampedX) * 4
NeighbourIndex(width, height, x, y, ky, kx) ==
  (ClampedY(height, y, ky) * width + ClampedX(width, x, kx)) * 4

\* kernel[(ky + 1) * 3 + (kx + 1)]
TapWeight(clarity100, ky, kx) == Kernel(clarity100)[(ky + 1) * 3 + (kx + 1) + 1]

\* a read input[i] beyond the buffer yields undefined, and the sum is NaN
SumIsNaN(input, width, height, x, y, ch) ==
  \E t \in 1 .. 9 :
     NeighbourIndex(width, height, x, y, KernelTaps[t][1], KernelTaps[t][2]) + ch
        \notin DOMAIN input

\* r += input[idx] * weight over the nine taps (lines 64-76), times 10^4
RECURSIVE TapSum(_, _, _, _, _, _, _, _)
TapSum(input, width, height, clarity100, x, y, ch, t) ==
  IF t = 0 THEN 0
  ELSE LET ky == KernelTaps[t][1]
           kx == KernelTaps[t][2]
       IN TapSum(input, width, height, clarity100, x, y, ch, t - 1)
          + input[NeighbourIndex(width, height, x, y, ky, kx) + ch]
            * TapWeight(clarity100, ky, kx)

\* Math.round of a sum kept times 10^4
RoundScaled(sum) == (2 * sum + 10000) \div 20000

\* output[destIndex + ch] = clampChannel(sum)  (lines 78-82); a NaN is
\* stored in a Uint8ClampedArray as 0
KernelChannel(input, width, height, clarity100, x, y, ch) ==
  IF SumIsNaN(input, width, height, x, y, ch) THEN 0
  ELSE StoreChannel(RoundScaled(TapSum(input, width, height, clarity100, x, y, ch, 9)))

\* the whole function: output is a fresh zero-filled array of input.length,
\* written at the pixels x < width, y < height
applyClarityKernel(input, width, height, clarity100) ==
  [i \in DOMAIN input |->
     IF i \div 4 < width * height
     THEN KernelChannel(input, width, height, clarity100,
                        (i \div 4) % width, (i \div 4) \div width, i % 4)
     ELSE 0]

\* every read the loops make: output pixel (x, y), tap (ky, kx), index idx
KernelReads(width, height) ==
  { [x |-> x, y |-> y, ky |-> KernelTaps[t][1], kx |-> KernelTaps[t][2],
     idx |-> NeighbourIndex(width, height, x, y, KernelTaps[t][1], KernelTaps[t][2])] :
       x \in 0 .. width - 1, y \in 0 .. height - 1, t \in 1 .. 9 }

\* ------------------------------------------------------------------------
\* Image load: the downscaling of lines 233-238
\* ------------------------------------------------------------------------
maxDimension == 1600

\* Math.floor in the place of Math.round
TargetSideFloor(side, largestSide) ==
  IF largestSide > maxDimension
  THEN (maxDimension * side) \div largestSide
  ELSE side

\* Math.round(side * scale), scale = maxDimension / largestSide when the
\* largest side exceeds maxDimension and 1 otherwise
\* (the quotient side * maxDimension / largestSide taken exactly)
TargetSide(side, largestSide) ==
  IF largestSide > maxDimension
  THEN (2 * maxDimension * side + largestSide) \div (2 * largestSide)
  ELSE side

TargetWidth(width, height) == TargetSide(width, Max(width, height))
TargetHeight(width, height) == TargetSide(height, Max(width, height))

\* getImageData(0, 0, sw, sh) throws IndexSizeError when sw or sh is 0
GetImageDataThrows(targetWidth, targetHeight) ==
  targetWidth = 0 \/ targetHeight = 0

\* ------------------------------------------------------------------------
\* The Home component: state, pending callbacks, inputs
\* ------------------------------------------------------------------------
VARIABLES
  imageSrc,           \* useState: data URL of the chosen file (the file stands for it)
  previewSrc,         \* useState: data URL of the decoded preview
  previewDimensions,  \* useState: <<>> or <<[width, height]>>
  enhancedSrc,        \* useState: <<>> or <<the image the canvas was exported as>>
  settings,           \* useState
  processing,         \* useState
  error,              \* useState: NULL or a message
  baseImageDataRef,   \* useRef: <<>> or <<[width, height]>>, its data in heap.base
  heap,               \* the pixel storage: base.data, working, the kernel's output
  canvas,             \* the pixels put on the output canvas
  readers,            \* pending FileReader reads, per file
  loads,              \* pending Image loads, per image source
  frames,             \* pending requestAnimationFrame callbacks: the settings
                      \* captured by each one's applyEnhancements
  userEvents,         \* number of user events (files chosen, settings events) so far
  decoded,            \* history: the buffer decoded at the last image load
  lastDraw,           \* history: what the last applyEnhancements that drew did
  lastFrame,          \* history: how the last frame callback ended
  probe               \* the downscaling computation checked on its own

vars ==
  << imageSrc, previewSrc, previewDimensions, enhancedSrc, settings, processing,
     error, baseImageDataRef, heap, canvas, readers, loads, frames, userEvents,
     decoded, lastDraw, lastFrame, probe >>

MaxUserEvents == 3
MaxSide == 2

NoBuffer == <<>>

ErrNotImage == "Ju lutem zgjidhni nje skedar fotografie (JPG, PNG, HEIC)."
ErrRead == "Nuk arrita te lexoj fotografine."
ErrUpload == "Dicka shkoi keq gjate ngarkimit. Provo perseri."
ErrProcess == "Nuk arrita te perpunoj fotografine. Provo perseri."

\* The files a user may pick: a text file, a photo, a file of image type
\* whose content no decoder accepts.
Files == {"notes.txt", "old.jpg", "broken.jpg"}

\* file.type.startsWith("image/")
FileIsImage(f) == f # "notes.txt"

Decodable(f) == f = "old.jpg"

BufferOf(pixels) ==
  [i \in 0 .. 4 * Len(pixels) - 1 |-> pixels[(i \div 4) + 1][(i % 4) + 1]]

\* the picture in the decodable file: natural width, height, RGBA pixels
SourceImage(f) ==
  [width |-> 2, height |-> 1,
   data |-> BufferOf(<< <<100, 150, 200, 255>>, <<250, 128, 12, 128>> >>)]

\* drawImage(image, 0, 0, targetWidth, targetHeight) then getImageData: the
\* source pixel under each target pixel (the sources of the model are within
\* maxDimension, where the target has the source's size and this is a copy)
DrawImageData(f, targetWidth, targetHeight) ==
  LET src == SourceImage(f) IN
  [i \in 0 .. 4 * targetWidth * targetHeight - 1 |->
     LET x == (i \div 4) % targetWidth
         y == (i \div 4) \div targetWidth
         sx == (x * src.width) \div targetWidth
         sy == (y * src.height) \div targetHeight
     IN src.data[(sy * src.width + sx) * 4 + (i % 4)]]

\* the values a slider is moved to (within its min and max, lines 487-534)
SliderValues ==
  [brightness |-> {60}, contrast |-> {}, saturation |-> {-20},
   warmth |-> {}, clarity |-> {0}, fade |-> {}]

NoDraw ==
  [done |-> FALSE, settings |-> DEFAULT_SETTINGS, base |-> NoBuffer,
   kernelRan |-> FALSE, kernelInput |-> NoBuffer, clarity100 |-> 0, reads |-> {}]

NoProbe == [done |-> FALSE, width |-> 0, height |-> 0,
            targetWidth |-> 0, targetHeight |-> 0]

Init ==
  /\ imageSrc = NULL
  /\ previewSrc = NULL
  /\ previewDimensions = <<>>
  /\ enhancedSrc = <<>>
  /\ settings = DEFAULT_SETTINGS
  /\ processing = FALSE
  /\ error = NULL
  /\ baseImageDataRef = <<>>
  /\ heap = [base |-> NoBuffer, working |-> NoBuffer, output |-> NoBuffer]
  /\ canvas = <<>>
  /\ readers = [f \in Files |-> 0]
  /\ loads = [f \in Files |-> 0]
  /\ frames = << DEFAULT_SETTINGS >>     \* the redraw effect ran at mount
  /\ userEvents = 0
  /\ decoded = NoBuffer
  /\ lastDraw = NoDraw
  /\ lastFrame = "none"
  /\ probe = NoProbe

\* const hasImage = Boolean(imageSrc); the canvas, the reset and auto
\* buttons are rendered when it holds, the upload label when it does not
hasImage == imageSrc # NULL

\* ------------------------------------------------------------------------
\* The redraw effect (lines 267-272)
\* ------------------------------------------------------------------------
\* a cleanup that forgets cancelAnimationFrame
CancelFrameMissing(fr) == fr

\* return () => cancelAnimationFrame(frame): the callback the previous run
\* of the effect requested is dropped if it is still pending
CancelFrame(fr) == IF fr = <<>> THEN fr ELSE SubSeq(fr, 1, Len(fr) - 1)

\* The effect re-runs when applyEnhancements changes, which is when
\* setSettings stored a new object: cleanup, then requestAnimationFrame of
\* the new applyEnhancements, which closes over the new settings.
RedrawEffect(fr, s) == Append(CancelFrame(fr), s)

RemoveAt(seq, i) == SubSeq(seq, 1, i - 1) \o SubSeq(seq, i + 1, Len(seq))

\* ------------------------------------------------------------------------
\* handleFile and the FileReader callbacks (lines 274-303)
\* ------------------------------------------------------------------------
HandleFile(f) ==
  /\ ~hasImage
  /\ userEvents < MaxUserEvents
  /\ userEvents' = userEvents + 1
  /\ IF ~FileIsImage(f)
     THEN /\ error' = ErrNotImage
          /\ UNCHANGED <<processing, previewDimensions, previewSrc, enhancedSrc, readers>>
     ELSE /\ error' = NULL
          /\ processing' = TRUE
          /\ previewDimensions' = <<>>
          /\ previewSrc' = NULL
          /\ enhancedSrc' = <<>>
          /\ readers' = [readers EXCEPT ![f] = @ + 1]
  /\ UNCHANGED <<imageSrc, settings, baseImageDataRef, heap, canvas, loads, frames,
                 decoded, lastDraw, lastFrame, probe>>

\* readAsDataURL leaves a string in reader.result when it succeeds
ReaderResultIsString == TRUE

\* reader.onload; setImageSrc with a new value re-runs the image effect
\* (lines 228-231, 264), which starts a load of the new source
ReaderOnLoad(f) ==
  /\ readers[f] > 0
  /\ readers' = [readers EXCEPT ![f] = @ - 1]
  /\ IF ReaderResultIsString
     THEN /\ imageSrc' = f
          /\ loads' = IF imageSrc # f THEN [loads EXCEPT ![f] = @ + 1] ELSE loads
          /\ UNCHANGED <<error, processing>>
     ELSE /\ error' = ErrRead
          /\ processing' = FALSE
          /\ UNCHANGED <<imageSrc, loads>>
  /\ UNCHANGED <<previewSrc, previewDimensions, enhancedSrc, settings,
                 baseImageDataRef, heap, canvas, frames, userEvents, decoded,
                 lastDraw, lastFrame, probe>>

\* reader.onerror
ReaderOnError(f) ==
  /\ readers[f] > 0
  /\ readers' = [readers EXCEPT ![f] = @ - 1]
  /\ error' = ErrUpload
  /\ processing' = FALSE
  /\ UNCHANGED <<imageSrc, previewSrc, previewDimensions, enhancedSrc, settings,
                 baseImageDataRef, heap, canvas, loads, frames, userEvents,
                 decoded, lastDraw, lastFrame, probe>>

\* ------------------------------------------------------------------------
\* The image effect's image.onload (lines 232-263)
\* ------------------------------------------------------------------------
\* tempCanvas.getContext returned null
ImageOnLoadNoContext(f) ==
  /\ loads[f] > 0
  /\ Decodable(f)
  /\ loads' = [loads EXCEPT ![f] = @ - 1]
  /\ error' = ErrProcess
  /\ UNCHANGED <<imageSrc, previewSrc, previewDimensions, enhancedSrc, settings,
                 processing, baseImageDataRef, heap, canvas, readers, frames,
                 userEvents, decoded, lastDraw, lastFrame, probe>>

\* the context was obtained
ImageOnLoad(f) ==
  /\ loads[f] > 0
  /\ Decodable(f)
  /\ loads' = [loads EXCEPT ![f] = @ - 1]
  /\ LET src == SourceImage(f)
         targetWidth == TargetWidth(src.width, src.height)
         targetHeight == TargetHeight(src.width, src.height)
     IN IF GetImageDataThrows(targetWidth, targetHeight)
        THEN \* the exception leaves the handler before anything is stored
             UNCHANGED <<previewSrc, previewDimensions, settings, processing,
                            baseImageDataRef, heap, frames, decoded>>
        ELSE /\ baseImageDataRef' = << [width |-> targetWidth, height |-> targetHeight] >>
             /\ heap' = [heap EXCEPT !.base = DrawImageData(f, targetWidth, targetHeight)]
             /\ decoded' = DrawImageData(f, targetWidth, targetHeight)
             /\ previewSrc' = f
             /\ previewDimensions' = << [width |-> targetWidth, height |-> targetHeight] >>
             /\ settings' = DEFAULT_SETTINGS
             /\ processing' = FALSE
             /\ frames' = RedrawEffect(frames, DEFAULT_SETTINGS)
  /\ UNCHANGED <<imageSrc, enhancedSrc, error, canvas, readers, userEvents,
                 lastDraw, lastFrame, probe>>

\* The source cannot be decoded.  The Image is given no onerror handler, so
\* no code of the component runs.
ImageDecodeFails(f) ==
  /\ loads[f] > 0
  /\ ~Decodable(f)
  /\ loads' = [loads EXCEPT ![f] = @ - 1]
  /\ UNCHANGED <<imageSrc, previewSrc, previewDimensions, enhancedSrc, settings,
                 processing, error, baseImageDataRef, heap, canvas, readers, frames,
                 userEvents, decoded, lastDraw, lastFrame, probe>>

\* ------------------------------------------------------------------------
\* The settings handlers (lines 324-343)
\* ------------------------------------------------------------------------
SetSettings(s) ==
  /\ userEvents < MaxUserEvents
  /\ userEvents' = userEvents + 1
  /\ settings' = s
  /\ frames' = RedrawEffect(frames, s)
  /\ UNCHANGED <<imageSrc, previewSrc, previewDimensions, enhancedSrc, processing,
                 error, baseImageDataRef, heap, canvas, readers, loads,
                 decoded, lastDraw, lastFrame, probe>>

UpdateSetting(key, value) ==
  SetSettings([settings EXCEPT ![key] = value])

HandleReset == hasImage /\ SetSettings(DEFAULT_SETTINGS)

HandleAutoEnhance == hasImage /\ SetSettings(AUTO_SETTINGS)

\* ------------------------------------------------------------------------
\* applyEnhancements (lines 162-226), run by the frame callback
\* ------------------------------------------------------------------------
\* const working = base.data: the loop would write into the base buffer
WorkingAliasesBase == "base"

\* const working = new Uint8ClampedArray(base.data): storage of its own
WorkingStorage == "working"

\* const output = new Uint8ClampedArray(input.length) (line 43)
OutputStorage == "output"

\* if (settings.clarity >= 0)
ClarityEnabledAtZero(s) == s.clarity >= 0

\* if (settings.clarity > 0)   (line 213)
ClarityEnabled(s) == s.clarity > 0

\* the argument settings.clarity / 100 (line 218), in hundredths
ClarityArgument(s) == s.clarity

\* if (!canvas || !base) return;
FrameSkipped(i) ==
  /\ i \in 1 .. Len(frames)
  /\ ~hasImage \/ baseImageDataRef = <<>>
  /\ frames' = RemoveAt(frames, i)
  /\ lastFrame' = "skipped"
  /\ UNCHANGED <<imageSrc, previewSrc, previewDimensions, enhancedSrc, settings,
                 processing, error, baseImageDataRef, heap, canvas, readers, loads,
                 userEvents, decoded, lastDraw, probe>>

\* if (!ctx) return;
FrameNoContext(i) ==
  /\ i \in 1 .. Len(frames)
  /\ hasImage /\ baseImageDataRef # <<>>
  /\ frames' = RemoveAt(frames, i)
  /\ lastFrame' = "noContext"
  /\ UNCHANGED <<imageSrc, previewSrc, previewDimensions, enhancedSrc, settings,
                 processing, error, baseImageDataRef, heap, canvas, readers, loads,
                 userEvents, decoded, lastDraw, probe>>

\* lines 170-225, with the settings s the callback closed over
FrameDraws(i) ==
  /\ i \in 1 .. Len(frames)
  /\ hasImage /\ baseImageDataRef # <<>>
  /\ LET s == frames[i]
         base == baseImageDataRef[1]
         h1 == [heap EXCEPT ![WorkingStorage] = heap.base]
         h2 == [h1 EXCEPT ![WorkingStorage] = ToneMap(s, h1[WorkingStorage])]
         h3 == IF ClarityEnabled(s)
               THEN [h2 EXCEPT ![OutputStorage] =
                       applyClarityKernel(h2[WorkingStorage], base.width, base.height,
                                          ClarityArgument(s))]
               ELSE h2
         finalPixels == IF ClarityEnabled(s) THEN h3[OutputStorage] ELSE h3[WorkingStorage]
         finalImage == [width |-> base.width, height |-> base.height, data |-> finalPixels]
     IN /\ heap' = h3
        /\ canvas' = << finalImage >>          \* canvas.width/height, putImageData
        /\ enhancedSrc' = << finalImage >>     \* canvas.toDataURL("image/png")
        /\ processing' = FALSE                 \* setProcessing(true) ... (false)
        /\ lastDraw' = [done |-> TRUE, settings |-> s, base |-> heap.base,
                        kernelRan |-> ClarityEnabled(s),
                        kernelInput |-> IF ClarityEnabled(s) THEN h2[WorkingStorage]
                                        ELSE NoBuffer,
                        clarity100 |-> IF ClarityEnabled(s) THEN ClarityArgument(s) ELSE 0,
                        reads |-> IF ClarityEnabled(s)
                                  THEN KernelReads(base.width, base.height) ELSE {}]
  /\ frames' = RemoveAt(frames, i)
  /\ lastFrame' = "drew"
  /\ UNCHANGED <<imageSrc, previewSrc, previewDimensions, settings, error,
                 baseImageDataRef, readers, loads, userEvents, decoded, probe>>

RunFrame == \E i \in 1 .. Len(frames) : FrameSkipped(i) \/ FrameNoContext(i) \/ FrameDraws(i)

ReaderDone == \E f \in Files : ReaderOnLoad(f) \/ ReaderOnError(f)

LoadDone == \E f \in Files : ImageOnLoad(f) \/ ImageOnLoadNoContext(f) \/ ImageDecodeFails(f)

Next ==
  \/ \E f \in Files : HandleFile(f)
  \/ \E f \in Files : ReaderOnLoad(f)
  \/ \E f \in Files : ReaderOnError(f)
  \/ \E f \in Files : ImageOnLoad(f)
  \/ \E f \in Files : ImageOnLoadNoContext(f)
  \/ \E f \in Files : ImageDecodeFails(f)
  \/ \E key \in SettingKeys : \E value \in SliderValues[key] : UpdateSetting(key, value)
  \/ HandleReset
  \/ HandleAutoEnhance
  \/ \E i \in 1 .. Len(frames) : FrameSkipped(i)
  \/ \E i \in 1 .. Len(frames) : FrameNoContext(i)
  \/ \E i \in 1 .. Len(frames) : FrameDraws(i)

Spec == Init /\ [][Next]_vars

\* The browser runs a requested frame callback, and ends every read and
\* every image load, in finite time.
SpecFair ==
  Spec /\ WF_vars(RunFrame) /\ WF_vars(ReaderDone) /\ WF_vars(LoadDone)

\* ------------------------------------------------------------------------
\* applyEnhancements as a function of the base image and the settings: the
\* component with a base image loaded, settings of any integer values and
\* the redraw pending
\* ------------------------------------------------------------------------
\* A base image is given by its first pixel and a per-pixel step: pixel p
\* (row-major) has channel c equal to (first[c] + p * step[c]) mod 256.
BasePatterns ==
  { [first |-> <<255, 255, 255, 255>>, step |-> <<0, 0, 0, 0>>],
    [first |-> <<100, 150, 200, 255>>, step |-> <<0, 0, 0, 0>>],
    [first |-> <<128, 128, 128, 255>>, step |-> <<0, 0, 0, 200>>],
    [first |-> <<0, 85, 170, 0>>,      step |-> <<3, 5, 7, 11>>],
    [first |-> <<37, 122, 244, 111>>,  step |-> <<3, 5, 7, 11>>],
    [first |-> <<90, 175, 94, 14>>,    step |-> <<50, 101, 7, 11>>],
    [first |-> <<254, 1, 127, 129>>,   step |-> <<1, 255, 2, 63>>],
    [first |-> <<201, 30, 60, 255>>,   step |-> <<27, 64, 190, 0>>],
    [first |-> <<251, 250, 12, 128>>,  step |-> <<99, 3, 120, 127>>] }

PatternBuffer(pat, width, height) ==
  [i \in 0 .. 4 * width * height - 1 |->
     (pat.first[(i % 4) + 1] + (i \div 4) * pat.step[(i % 4) + 1]) % 256]

NEUTRAL_SETTINGS ==
  [brightness |-> 0, contrast |-> 0, saturation |-> 0,
   warmth |-> 0, clarity |-> 0, fade |-> 0]

\* saturation alone moved away from neutral
SaturationOnly(v) == [NEUTRAL_SETTINGS EXCEPT !.saturation = v]

\* Settings inside and outside the slider ranges
PureSettings ==
  { NEUTRAL_SETTINGS, DEFAULT_SETTINGS, AUTO_SETTINGS,
    [NEUTRAL_SETTINGS EXCEPT !.brightness = 60, !.contrast = 60],
    [NEUTRAL_SETTINGS EXCEPT !.brightness = 60, !.contrast = 60, !.clarity = 60],
    [NEUTRAL_SETTINGS EXCEPT !.warmth = 10],
    [NEUTRAL_SETTINGS EXCEPT !.clarity = 1],
    [NEUTRAL_SETTINGS EXCEPT !.clarity = 100],
    [NEUTRAL_SETTINGS EXCEPT !.clarity = -10],
    SaturationOnly(-20), SaturationOnly(50), SaturationOnly(-100),
    SaturationOnly(-4000), SaturationOnly(4000),
    [brightness |-> -40, contrast |-> -30, saturation |-> -20,
     warmth |-> -15, clarity |-> 0, fade |-> 0],
    [brightness |-> 60, contrast |-> 60, saturation |-> 50,
     warmth |-> 25, clarity |-> 60, fade |-> 40],
    [brightness |-> 1000, contrast |-> 300, saturation |-> 1000,
     warmth |-> 1000, clarity |-> 1000, fade |-> 250],
    [brightness |-> -1000, contrast |-> -300, saturation |-> -1000,
     warmth |-> -1000, clarity |-> 10000, fade |-> -50],
    [brightness |-> 7, contrast |-> 98, saturation |-> 3, warmth |-> -200,
     clarity |-> 17, fade |-> 100],
    [brightness |-> -3, contrast |-> 99, saturation |-> 300, warmth |-> 40,
     clarity |-> 0, fade |-> 99] }

InitPipeline ==
  \E width \in 1 .. MaxSide, height \in 1 .. MaxSide,
     pat \in BasePatterns, s \in PureSettings :
    /\ imageSrc = "photo"
    /\ previewSrc = "photo"
    /\ previewDimensions = << [width |-> width, height |-> height] >>
    /\ enhancedSrc = <<>>
    /\ settings = s
    /\ processing = FALSE
    /\ error = NULL
    /\ baseImageDataRef = << [width |-> width, height |-> height] >>
    /\ heap = [base |-> PatternBuffer(pat, width, height),
               working |-> NoBuffer, output |-> NoBuffer]
    /\ canvas = <<>>
    /\ readers = [f \in Files |-> 0]
    /\ loads = [f \in Files |-> 0]
    /\ frames = << s >>
    /\ userEvents = 0
    /\ decoded = PatternBuffer(pat, width, height)
    /\ lastDraw = NoDraw
    /\ lastFrame = "none"
    /\ probe = NoProbe

NextPipeline == \E i \in 1 .. Len(frames) : FrameDraws(i)

SpecPipeline == InitPipeline /\ [][NextPipeline]_vars

\* ------------------------------------------------------------------------
\* The downscaling of image.onload on its own: the computation of lines
\* 233-238 and the getImageData of lines 253-258 for a source of the given
\* natural size, the pixels left out
\* ------------------------------------------------------------------------
SourceSides ==
  {1, 2, 3, 799, 1599, 1600, 1601, 2400, 3199, 3200, 3201, 4000, 4801, 10000}

ImageOnLoadScale(width, height) ==
  /\ probe' = [done |-> TRUE, width |-> width, height |-> height,
               targetWidth |-> TargetWidth(width, height),
               targetHeight |-> TargetHeight(width, height)]
  /\ UNCHANGED <<imageSrc, previewSrc, previewDimensions, enhancedSrc, settings,
                 processing, error, baseImageDataRef, heap, canvas, readers, loads,
                 frames, userEvents, decoded, lastDraw, lastFrame>>

NextScale == \E width \in SourceSides, height \in SourceSides : ImageOnLoadScale(width, height)

SpecScale == Init /\ [][NextScale]_vars

\* ------------------------------------------------------------------------
\* Properties
\* ------------------------------------------------------------------------
Abs(n) == IF n < 0 THEN -n ELSE n

\* the width and height of the stored base image
BaseWidth == baseImageDataRef[1].width
BaseHeight == baseImageDataRef[1].height

\* the pixels on the output canvas
Displayed == canvas[1].data

\* pixel p of buf is <<r, g, b>> in its colour channels
HasColour(buf, p, rgb) ==
  buf[4 * p] = rgb[1] /\ buf[4 * p + 1] = rgb[2] /\ buf[4 * p + 2] = rgb[3]

PixelsOf(buf) == 0 .. (BufLen(buf) \div 4) - 1

WhiteBuffer(width, height) == [i \in 0 .. 4 * width * height - 1 |-> 255]

\* C1: every channel (r, g, b, alpha) of the buffer applyEnhancements draws
\* is an integer in 0..255, for every base buffer and every settings value,
\* with or without the clarity kernel; and with brightness = 60 and
\* contrast = 60 every pixel (255,255,255,255) of the base is drawn as
\* 255 in all four channels.
C1_ChannelsInRange ==
  lastDraw.done =>
    /\ \A i \in DOMAIN Displayed : Displayed[i] \in 0 .. 255
    /\ (lastDraw.settings.brightness = 60 /\ lastDraw.settings.contrast = 60) =>
         \A p \in PixelsOf(lastDraw.base) :
            (HasColour(lastDraw.base, p, <<255, 255, 255>>) /\ lastDraw.base[4 * p + 3] = 255)
              => (HasColour(Displayed, p, <<255, 255, 255>>) /\ Displayed[4 * p + 3] = 255)

\* a white 2x2 image was drawn with brightness = 60 and contrast = 60
C1_Witness ==
  /\ lastDraw.done
  /\ lastDraw.settings = [NEUTRAL_SETTINGS EXCEPT !.brightness = 60, !.contrast = 60]
  /\ lastDraw.base = WhiteBuffer(2, 2)
  /\ Displayed = WhiteBuffer(2, 2)

\* C4: the buffer drawn is the clarity kernel applied to the tone-mapped
\* base with clarity settings.clarity / 100 when settings.clarity > 0, and
\* the tone-mapped base itself otherwise; the kernel runs exactly when
\* settings.clarity > 0, and its input is the tone mapper's result.
C4_PipelineComposition ==
  lastDraw.done =>
    LET s == lastDraw.settings
        toned == ToneMap(s, lastDraw.base)
    IN /\ Displayed = IF s.clarity > 0
                      THEN applyClarityKernel(toned, BaseWidth, BaseHeight, s.clarity)
                      ELSE toned
       /\ lastDraw.kernelRan <=> s.clarity > 0
       /\ lastDraw.kernelRan => (lastDraw.kernelInput = toned /\ lastDraw.clarity100 = s.clarity)

\* the kernel ran on a tone-mapped buffer and changed it
C4_Witness ==
  /\ lastDraw.done
  /\ lastDraw.kernelRan
  /\ lastDraw.kernelInput # lastDraw.base
  /\ Displayed # lastDraw.kernelInput

\* C5: with all six settings 0 the buffer drawn equals the base buffer,
\* channel for channel, alpha included.
C5_NeutralIsIdentity ==
  (lastDraw.done /\ lastDraw.settings = NEUTRAL_SETTINGS) =>
     (Displayed = lastDraw.base /\ canvas[1].width = BaseWidth /\ canvas[1].height = BaseHeight)

\* the 2x2 image of pixels (100,150,200,255) was drawn with neutral settings
C5_Witness ==
  /\ lastDraw.done
  /\ lastDraw.settings = NEUTRAL_SETTINGS
  /\ BaseWidth = 2 /\ BaseHeight = 2
  /\ \A p \in 0 .. 3 : HasColour(lastDraw.base, p, <<100, 150, 200>>) /\ lastDraw.base[4 * p + 3] = 255
  /\ Displayed = lastDraw.base

\* C6: with brightness, contrast, warmth and fade 0, the tone mapper maps
\* every pixel (128,128,128) to (128,128,128), whatever the saturation.
C6_GrayUnchanged ==
  (lastDraw.done /\ lastDraw.settings = SaturationOnly(lastDraw.settings.saturation)) =>
     \A p \in PixelsOf(lastDraw.base) :
        HasColour(lastDraw.base, p, <<128, 128, 128>>)
          => HasColour(heap.working, p, <<128, 128, 128>>)

\* c is the coordinate in 0 .. n-1 nearest to t
Nearest(c, t, n) ==
  c \in 0 .. n - 1 /\ \A d \in 0 .. n - 1 : Abs(c - t) <= Abs(d - t)

\* C7: each of the nine reads the kernel makes for an output pixel (x, y) is
\* at (x+kx, y+ky) moved to the nearest valid coordinate, all four channel
\* indices of it inside the input buffer; on a 1x1 image every read is at
\* index 0 and the output is one pixel of defined channel values.
C7_ClampToEdge ==
  (lastDraw.done /\ lastDraw.kernelRan) =>
     /\ Cardinality(lastDraw.reads) = 9 * BaseWidth * BaseHeight
     /\ \A r \in lastDraw.reads :
          /\ \E cx \in 0 .. BaseWidth - 1, cy \in 0 .. BaseHeight - 1 :
               /\ Nearest(cx, r.x + r.kx, BaseWidth)
               /\ Nearest(cy, r.y + r.ky, BaseHeight)
               /\ r.idx = (cy * BaseWidth + cx) * 4
          /\ \A ch \in 0 .. 3 : r.idx + ch \in DOMAIN lastDraw.kernelInput
     /\ (BaseWidth = 1 /\ BaseHeight = 1) =>
          /\ \A r \in lastDraw.reads : r.idx = 0
          /\ DOMAIN Displayed = 0 .. 3
          /\ \A i \in 0 .. 3 : Displayed[i] \in 0 .. 255

\* the kernel ran on a 1x1 image
C7_Witness ==
  /\ lastDraw.done
  /\ lastDraw.kernelRan
  /\ BaseWidth = 1 /\ BaseHeight = 1
  /\ Cardinality(lastDraw.reads) = 9
  /\ DOMAIN Displayed = 0 .. 3

\* t is Math.round(side * 1600 / largestSide): t - 1/2 <= the quotient < t + 1/2
IsRoundedScaled(t, side, largestSide) ==
  /\ 2 * t * largestSide <= 2 * 1600 * side + largestSide
  /\ 2 * 1600 * side + largestSide < 2 * (t + 1) * largestSide

\* C8: the target size computed at image load has both sides at most 1600;
\* it is the source size when the longest side is at most 1600, and
\* otherwise each side is the source side times 1600 / longestSide,
\* rounded, the longest side becoming exactly 1600.
C8_DownscaleBounds ==
  probe.done =>
    LET longest == Max(probe.width, probe.height) IN
    /\ probe.targetWidth <= 1600 /\ probe.targetHeight <= 1600
    /\ longest <= 1600 =>
         (probe.targetWidth = probe.width /\ probe.targetHeight = probe.height)
    /\ longest > 1600 =>
         /\ IsRoundedScaled(probe.targetWidth, probe.width, longest)
         /\ IsRoundedScaled(probe.targetHeight, probe.height, longest)
         /\ Max(probe.targetWidth, probe.targetHeight) = 1600

\* a 3199 x 1601 source was scaled to 1600 x 801
C8_Witness ==
  /\ probe.done
  /\ probe.width = 3199 /\ probe.height = 1601
  /\ probe.targetWidth = 1600 /\ probe.targetHeight = 801

\* applyEnhancements' result for settings s on the stored base image
Pipeline(s) ==
  LET toned == ToneMap(s, heap.base)
  IN IF s.clarity > 0
     THEN applyClarityKernel(toned, BaseWidth, BaseHeight, s.clarity)
     ELSE toned

BaseLoaded == baseImageDataRef # <<>>

\* the output canvas shows the pipeline's result for the current settings
DisplayedCurrent == canvas # <<>> /\ Displayed = Pipeline(settings)

\* a step in which one of the collaborator failures happens
FailureStep ==
  \/ \E f \in Files : HandleFile(f) /\ ~FileIsImage(f)
  \/ \E f \in Files : ImageDecodeFails(f)
  \/ \E f \in Files : ImageOnLoadNoContext(f)
  \/ \E i \in 1 .. Len(frames) : FrameNoContext(i)

\* C2: a file that is not an image, an image source that cannot be decoded
\* and a 2D context that cannot be obtained (temporary canvas or output
\* canvas) each leave an error message set.
C2_FailuresSetError == [][FailureStep => error' # NULL]_vars

\* C3: the stored base buffer equals the buffer decoded at image load after
\* any settings changes, resets, auto-enhance presses and redraws, and the
\* buffer handed to applyClarityKernel is unchanged when it has returned.
C3_InputsNotMutated ==
  /\ BaseLoaded => heap.base = decoded
  /\ lastDraw.done => lastDraw.base = decoded
  /\ (lastDraw.done /\ lastDraw.kernelRan) => heap.working = lastDraw.kernelInput

\* after an auto-enhance press the redraw ran both stages: the working copy
\* and the kernel's output differ from the base, which is as decoded
C3_Witness ==
  /\ lastDraw.done
  /\ lastDraw.kernelRan
  /\ lastDraw.settings = AUTO_SETTINGS
  /\ heap.base = decoded
  /\ heap.working # heap.base
  /\ heap.output # heap.working

\* at most one redraw callback is pending, and it is the one scheduled for
\* the current settings
OnePendingFrame ==
  Len(frames) <= 1 /\ (frames # <<>> => frames[1] = settings)

\* a base image is stored and no redraw is pending
NoPendingRedraw == BaseLoaded /\ frames = <<>>

NothingPending ==
  /\ \A f \in Files : readers[f] = 0 /\ loads[f] = 0
  /\ frames = <<>>

\* C10: processing does not stay true: once every continuation of the
\* operation that set it has run (the read, the image load, the redraw),
\* it is false again.
C10_ProcessingEnds == NothingPending => ~processing

\* C11: the target width and the target height computed at image load are
\* both at least 1 for every source of width >= 1 and height >= 1, so the
\* base buffer read back has a length (width * height * 4) that is a
\* positive multiple of 4.
C11_TargetsPositive ==
  probe.done =>
    /\ probe.targetWidth >= 1 /\ probe.targetHeight >= 1
    /\ ~GetImageDataThrows(probe.targetWidth, probe.targetHeight)
    /\ 4 * probe.targetWidth * probe.targetHeight > 0

====
